---- MODULE Spec2Model ----
(***************************************************************************)
(* A model of src/src/wikimedia/wikimedia.py: the stream index            *)
(* (_extract_index, _pairwise), the per-stream page extractor             *)
(* (_extract_content), and the wikitext cleaner (_clean_content,          *)
(* _parse_and_clean_wikicode, _construct_url).                            *)
(*                                                                         *)
(* Strings are sequences of one-character strings, so that the regular    *)
(* expressions, str.strip and len of the source act on characters.        *)
(***************************************************************************)
EXTENDS Integers, Sequences, FiniteSets, TLC

VARIABLES
    \* _extract_index / _pairwise
    rows,           \* first field of every row of the index file, in line order
    ipc,            \* position of the index call
    ihandle,        \* the index file handle: "unopened", "open", "closed"
    irow,           \* rows consumed by the comprehension
    acc,            \* the offsets collected so far by the set comprehension
    index,          \* the value returned by _extract_index
    ranges,         \* list(_pairwise(index))
    \* _extract_content (one generator)
    stream,         \* the pages of the byte range, in document order
    corrupt,        \* the byte range does not decompress
    epc,            \* position of the generator
    ehandle,        \* the dump file handle: "unopened", "open", "closed"
    epos,           \* page elements whose end event has been consumed
    yielded,        \* the records yielded so far
    \* _clean_content, fed the records of a stream one by one
    article,        \* the record being cleaned: id, title, raw
    language,       \* the language argument
    min_text_length,\* the min_text_length argument
    cpc,            \* position of the cleaning of the stream
    res,            \* what _parse_and_clean_wikicode did for this record
    out,            \* the records the current call has yielded
    fed,            \* records of the stream handed to _clean_content so far
    processed,      \* calls of _clean_content that have returned
    failures,       \* earlier records whose cleaning met a failure
    \* workers, one per range, each running _extract_content and _clean_content
    dump,           \* the compressed streams of the dump file, in file order
    wpc,            \* position of each worker
    hpos,           \* position of each open file handle
    wdata,          \* the bytes each worker has read
    wnext,          \* pages of its stream each worker has consumed
    wout            \* the records each worker has emitted, in order

idxVars == <<rows, ipc, ihandle, irow, acc, index, ranges>>

extVars == <<stream, corrupt, epc, ehandle, epos, yielded>>

clnVars == <<article, language, min_text_length, cpc, res, out, fed, processed,
             failures>>

wrkVars == <<dump, wpc, hpos, wdata, wnext, wout>>

vars == <<idxVars, extVars, clnVars, wrkVars>>

(***************************************************************************)
(* Bounds of the model                                                    *)
(***************************************************************************)
MaxRows == 3

(***************************************************************************)
(* Python values                                                          *)
(***************************************************************************)
\* None, and a present optional value, kept apart from every integer
None == <<>>

Some(v) == <<v>>

Range(s) == {s[i] : i \in 1..Len(s)}

\* "".join(parts)
RECURSIVE Concat(_)
Concat(parts) ==
    IF parts = <<>> THEN <<>> ELSE Head(parts) \o Concat(Tail(parts))

\* F applied to the value of v, which is computed once
Bind(v, F(_)) == CHOOSE y \in {F(x) : x \in {v}} : TRUE

\* every sequence over S of length at most n
SeqsUpTo(S, n) == UNION {[1..k -> S] : k \in 0..n}

(***************************************************************************)
(* _extract_index                                                         *)
(***************************************************************************)
Digits == <<"0", "1", "2", "3", "4", "5", "6", "7", "8", "9">>

IsDigit(c) == \E d \in 1..Len(Digits) : Digits[d] = c

DigitVal(c) == (CHOOSE d \in 1..Len(Digits) : Digits[d] = c) - 1

\* int(row[0]) accepts a decimal numeral (leading zeros allowed)
ValidInt(field) == field # <<>> /\ \A i \in 1..Len(field) : IsDigit(field[i])

RECURSIVE IntOf(_)
IntOf(field) ==
    IF field = <<>> THEN 0
    ELSE 10 * IntOf(SubSeq(field, 1, Len(field) - 1)) + DigitVal(field[Len(field)])

\* the first fields an index row of the model may hold: the numerals of the
\* offsets 0, 5 (written two ways), 7 and 20, and one that is no numeral
OffsetFields ==
    { <<"0">>, <<"5">>, <<"0", "5">>, <<"7">>, <<"2", "0">>, <<"x">> }

\* a set comprehension keeps one copy of each value
Collect_list(s, v) == Append(s, v)

Collect(s, v) == IF v \in Range(s) THEN s ELSE Append(s, v)

\* sorted(): insert each element into an ascending list
RECURSIVE Insert(_, _)
Insert(sorted, v) ==
    IF sorted = <<>> THEN <<v>>
    ELSE IF v <= Head(sorted) THEN <<v>> \o sorted
    ELSE <<Head(sorted)>> \o Insert(Tail(sorted), v)

RECURSIVE Sorted(_)
Sorted(s) == IF s = <<>> THEN <<>> ELSE Insert(Sorted(Tail(s)), Head(s))

\* _pairwise: zip_longest(starts, ends) with ends advanced by one
Pairwise(ix) ==
    [i \in 1..Len(ix) |-> [start |-> ix[i],
                           end   |-> IF i < Len(ix) THEN Some(ix[i + 1]) ELSE None]]

\* leaving a with block without closing the file
WithExit_leak(handle) == handle

\* leaving the with block of line 17 or line 32, normally or by an exception
WithExit(handle) == IF handle = "open" THEN "closed" ELSE handle

InitIndex ==
    /\ rows \in SeqsUpTo(OffsetFields, MaxRows)
    /\ ipc = "init"
    /\ ihandle = "unopened"
    /\ irow = 0
    /\ acc = <<>>
    /\ index = <<>>
    /\ ranges = <<>>

IdleIndex ==
    /\ rows = <<>>
    /\ ipc = "idle"
    /\ ihandle = "unopened"
    /\ irow = 0
    /\ acc = <<>>
    /\ index = <<>>
    /\ ranges = <<>>

\* with open(filepath, "rb") as compressed_file
OpenIndex ==
    /\ ipc = "init"
    /\ ihandle' = "open"
    /\ ipc' = "reading"
    /\ UNCHANGED <<rows, irow, acc, index, ranges>>
    /\ UNCHANGED <<extVars, clnVars, wrkVars>>

\* one row of the comprehension: int(row[0]); a ValueError leaves the with
\* block, which closes the file
ReadRow ==
    /\ ipc = "reading"
    /\ irow < Len(rows)
    /\ irow' = irow + 1
    /\ IF ValidInt(rows[irow + 1])
          THEN /\ acc' = Collect(acc, IntOf(rows[irow + 1]))
               /\ UNCHANGED <<ipc, ihandle>>
          ELSE /\ ipc' = "raised"
               /\ ihandle' = WithExit(ihandle)
               /\ UNCHANGED acc
    /\ UNCHANGED <<rows, index, ranges>>
    /\ UNCHANGED <<extVars, clnVars, wrkVars>>

\* return sorted({...}): evaluated inside the with block, which then closes
ReturnSorted ==
    /\ ipc = "reading"
    /\ irow = Len(rows)
    /\ index' = Sorted(acc)
    /\ ihandle' = WithExit(ihandle)
    /\ ipc' = "returned"
    /\ UNCHANGED <<rows, irow, acc, ranges>>
    /\ UNCHANGED <<extVars, clnVars, wrkVars>>

\* the caller pairs the index: list(_pairwise(index))
PairIndex ==
    /\ ipc = "returned"
    /\ ranges' = Pairwise(index)
    /\ ipc' = "paired"
    /\ UNCHANGED <<rows, ihandle, irow, acc, index>>
    /\ UNCHANGED <<extVars, clnVars, wrkVars>>

NextIndex ==
    \/ OpenIndex
    \/ ReadRow
    \/ ReturnSorted
    \/ PairIndex

(***************************************************************************)
(* _extract_content                                                       *)
(***************************************************************************)
MaxPages == 3

\* a page element of the decompressed stream.  text is the character data of
\* revision/text; wellformed = FALSE marks a syntax error inside the element
PageKinds ==
    [ns : {"0", "1"}, redirect : BOOLEAN, text : {<<>>, <<"a">>},
     wellformed : {TRUE}]
    \cup {[ns |-> "0", redirect |-> FALSE, text |-> <<"a">>, wellformed |-> FALSE]}

\* ElementTree: the text of an element without character data is None
ElemText(chars) == IF chars = <<>> THEN None ELSE Some(chars)

\* elem.find("./redirect")
FindRedirect(page) == IF page.redirect THEN Some("redirect") ELSE None

\* line 46: pages outside the main namespace, and redirects, are skipped
Filtered_and(page) == page.ns # "0" /\ FindRedirect(page) # None

Filtered(page) == page.ns # "0" \/ FindRedirect(page) # None

\* line 54: pages without text are skipped
EmptyPage_never(page) == FALSE

EmptyPage(page) == ElemText(page.text) = None

\* the record yielded for the k-th page: (id_, title, raw_content)
RecordOf(k, page) == [id |-> k, title |-> <<"T">>, raw |-> ElemText(page.text)[1]]

InitExtract ==
    /\ stream \in SeqsUpTo(PageKinds, MaxPages)
    /\ corrupt \in BOOLEAN
    /\ epc = "created"
    /\ ehandle = "unopened"
    /\ epos = 0
    /\ yielded = <<>>

IdleExtract ==
    /\ stream = <<>>
    /\ corrupt = FALSE
    /\ epc = "idle"
    /\ ehandle = "unopened"
    /\ epos = 0
    /\ yielded = <<>>

\* the first next(): open, seek, read, decompress, wrap in a root element.
\* A range that does not decompress raises inside the with block.
StartExtract ==
    /\ epc = "created"
    /\ IF corrupt
          THEN epc' = "raised" /\ ehandle' = WithExit("open")
          ELSE epc' = "running" /\ ehandle' = "open"
    /\ UNCHANGED <<stream, corrupt, epos, yielded>>
    /\ UNCHANGED <<idxVars, clnVars, wrkVars>>

\* the end event of the next page element: a syntax error raises ParseError;
\* a filtered or empty page is cleared and skipped; any other page is yielded
PageEvent ==
    /\ epc = "running"
    /\ epos < Len(stream)
    /\ LET page == stream[epos + 1] IN
          IF ~page.wellformed
             THEN /\ epc' = "raised"
                  /\ ehandle' = WithExit(ehandle)
                  /\ UNCHANGED <<epos, yielded>>
             ELSE /\ epos' = epos + 1
                  /\ UNCHANGED ehandle
                  /\ IF Filtered(page) \/ EmptyPage(page)
                        THEN UNCHANGED <<epc, yielded>>
                        ELSE /\ yielded' = Append(yielded, RecordOf(epos + 1, page))
                             /\ epc' = "suspended"
    /\ UNCHANGED <<stream, corrupt>>
    /\ UNCHANGED <<idxVars, clnVars, wrkVars>>

\* the events are exhausted: both with blocks exit, StopIteration
Exhaust ==
    /\ epc = "running"
    /\ epos = Len(stream)
    /\ epc' = "done"
    /\ ehandle' = WithExit(ehandle)
    /\ UNCHANGED <<stream, corrupt, epos, yielded>>
    /\ UNCHANGED <<idxVars, clnVars, wrkVars>>

\* the caller asks for the next record
Resume ==
    /\ epc = "suspended"
    /\ epc' = "running"
    /\ UNCHANGED <<stream, corrupt, ehandle, epos, yielded>>
    /\ UNCHANGED <<idxVars, clnVars, wrkVars>>

\* the caller stops iterating and drops the generator
StopIterating ==
    /\ epc \in {"created", "suspended"}
    /\ epc' = "abandoned"
    /\ UNCHANGED <<stream, corrupt, ehandle, epos, yielded>>
    /\ UNCHANGED <<idxVars, clnVars, wrkVars>>

\* the runtime closes the dropped generator: GeneratorExit is raised at the
\* yield, and the with block closes the file on the way out
Finalize ==
    /\ epc = "abandoned"
    /\ epc' = "closed"
    /\ ehandle' = WithExit(ehandle)
    /\ UNCHANGED <<stream, corrupt, epos, yielded>>
    /\ UNCHANGED <<idxVars, clnVars, wrkVars>>

NextExtract ==
    \/ StartExtract
    \/ PageEvent
    \/ Exhaust
    \/ Resume
    \/ StopIterating
    \/ Finalize


(***************************************************************************)
(* Characters and the regular expressions of _parse_and_clean_wikicode    *)
(***************************************************************************)
Uppers == <<"A", "B", "C", "D", "E", "F", "G", "H", "I", "J", "K", "L", "M", "N", "O", "P", "Q", "R", "S", "T", "U", "V", "W", "X", "Y", "Z">>

Lowers == <<"a", "b", "c", "d", "e", "f", "g", "h", "i", "j", "k", "l", "m", "n", "o", "p", "q", "r", "s", "t", "u", "v", "w", "x", "y", "z">>

IsUpper(c) == \E i \in 1..Len(Uppers) : Uppers[i] = c

Lower(c) ==
    IF IsUpper(c) THEN Lowers[CHOOSE i \in 1..Len(Uppers) : Uppers[i] = c] ELSE c

LowerStr(s) == [i \in 1..Len(s) |-> Lower(s[i])]

\* str.strip() without arguments strips whitespace
IsSpace(c) == c \in {" ", "\n", "\t"}

Drop(s, n) == SubSeq(s, n + 1, Len(s))

\* s has p at position i
At(s, i, p) == i >= 1 /\ i + Len(p) - 1 <= Len(s) /\ SubSeq(s, i, i + Len(p) - 1) = p

RECURSIVE LStrip(_)
LStrip(s) == IF s # <<>> /\ IsSpace(Head(s)) THEN LStrip(Tail(s)) ELSE s

RECURSIVE RStrip(_)
RStrip(s) ==
    IF s # <<>> /\ IsSpace(s[Len(s)]) THEN RStrip(SubSeq(s, 1, Len(s) - 1)) ELSE s

Strip(s) == Bind(RStrip(s), LAMBDA r : LStrip(r))

\* p occurs in s
Contains(s, p) == \E i \in 1..(Len(s) + 1) : At(s, i, p)

\* sep.join(parts)
RECURSIVE Join(_, _)
Join(parts, sep) ==
    IF parts = <<>> THEN <<>>
    ELSE IF Len(parts) = 1 THEN parts[1]
    ELSE parts[1] \o sep \o Join(Tail(parts), sep)

\* the first index from j on whose character is not an uppercase letter
RECURSIVE UpperRunEnd(_, _)
UpperRunEnd(s, j) ==
    IF j <= Len(s) /\ IsUpper(s[j]) THEN UpperRunEnd(s, j + 1) ELSE j

\* re.sub("__[A-Z]*__", "", s): leftmost matches, one left-to-right pass
RECURSIVE RemoveMagic(_)
RemoveMagic(s) ==
    IF s = <<>> THEN <<>>
    ELSE IF At(s, 1, <<"_", "_">>) /\ At(s, UpperRunEnd(s, 3), <<"_", "_">>)
            THEN Bind(Drop(s, UpperRunEnd(s, 3) + 1), LAMBDA rest : RemoveMagic(rest))
            ELSE Bind(Tail(s), LAMBDA rest : <<Head(s)>> \o RemoveMagic(rest))

\* the locale alias tables, keyed by language code
MEDIA_ALIASES == [de |-> <<<<"D", "a", "t", "e", "i">>, <<"B", "i", "l", "d">>>>]

CAT_ALIASES == [de |-> <<<<"K", "a", "t", "e", "g", "o", "r", "i", "e">>>>]

Languages == {"en", "de"}

\* dict.get(language, [])
AliasGet(table, lang) ==
    IF lang \in DOMAIN table THEN table[lang] ELSE <<>>

media_prefixes(lang) ==
    <<<<"F", "i", "l", "e">>, <<"I", "m", "a", "g", "e">>, <<"M", "e", "d", "i", "a">>>> \o AliasGet(MEDIA_ALIASES, lang)

cat_prefixes(lang) == <<<<"C", "a", "t", "e", "g", "o", "r", "y">>>> \o AliasGet(CAT_ALIASES, lang)

\* the length matched by "^(?:p1|p2|...):" with re.IGNORECASE at the start of
\* s: the first alternative that matches wins; 0 when none does
PrefixMatchLen(prefixes, s) ==
    LET hits == {i \in 1..Len(prefixes) :
                    At(LowerStr(s), 1, LowerStr(prefixes[i] \o <<":">>))}
    IN  IF hits = {} THEN 0
        ELSE Len(prefixes[CHOOSE i \in hits : \A j \in hits : i <= j]) + 1

\* rm_wikilink: bool(re_rm_wikilink.match(str(obj.title)))
rm_wikilink(title, lang) == PrefixMatchLen(media_prefixes(lang), title) > 0

\* is_category: bool(re_clean_wikilink.match(str(obj.title)))
is_category(title, lang) == PrefixMatchLen(cat_prefixes(lang), title) > 0

\* re.sub(re_clean_wikilink, "", text): the pattern is anchored at the start
StripCatPrefix(text, lang) ==
    Drop(text, PrefixMatchLen(cat_prefixes(lang), text))

(***************************************************************************)
(* parser.parse: the node tree of a markup string.  The markup of the     *)
(* model is text, [[title]] and [[title|text]] links (links nest inside   *)
(* the text of a link), <ref>...</ref> tags and ==title== headings.       *)
(***************************************************************************)
TextNode(chars) == [k |-> "text", s |-> chars, hasText |-> FALSE, kids |-> <<>>]

LinkNode(title, hasText, kids) ==
    [k |-> "link", s |-> title, hasText |-> hasText, kids |-> kids]

TagNode(tag, kids) == [k |-> "tag", s |-> tag, hasText |-> FALSE, kids |-> kids]

HeadingNode(title) == [k |-> "heading", s |-> title, hasText |-> FALSE, kids |-> <<>>]

\* adjacent characters of text form one Text node
AddChar(nodes, c) ==
    IF nodes # <<>> /\ nodes[Len(nodes)].k = "text"
       THEN [nodes EXCEPT ![Len(nodes)].s = Append(@, c)]
       ELSE Append(nodes, TextNode(<<c>>))

\* the first index from j on that cannot belong to a link title
RECURSIVE TitleEnd(_, _)
TitleEnd(s, j) ==
    IF j <= Len(s) /\ s[j] \notin {"|", "[", "]", "{", "}", "<", ">", "\n"}
       THEN TitleEnd(s, j + 1) ELSE j

\* the first index from j on that cannot belong to a heading title
RECURSIVE HeadingEnd(_, _)
HeadingEnd(s, j) ==
    IF j <= Len(s) /\ s[j] \notin {"=", "\n", "[", "<"} THEN HeadingEnd(s, j + 1) ELSE j

\* a level-2 heading starts at i: "==", a title, "==", then the end of the line
HeadingAt(s, i) ==
    /\ i = 1 \/ s[i - 1] = "\n"
    /\ At(s, i, <<"=", "=">>)
    /\ HeadingEnd(s, i + 2) > i + 2
    /\ At(s, HeadingEnd(s, i + 2), <<"=", "=">>)
    /\ (HeadingEnd(s, i + 2) + 2 > Len(s) \/ s[HeadingEnd(s, i + 2) + 2] = "\n")

ParseFail == [ok |-> FALSE, nodes |-> <<>>, next |-> 0]

RECURSIVE ParseUntil(_, _, _, _)
RECURSIVE ParseWikilink(_, _)

\* the nodes from position i up to the closing token of the context stop
\* ("top": the end of the string, "link": "]]", "ref": "</ref>")
ParseUntil(s, i, stop, nodes) ==
    IF i > Len(s)
       THEN [ok |-> stop = "top", nodes |-> nodes, next |-> i]
    ELSE IF stop = "link" /\ At(s, i, <<"]", "]">>)
       THEN [ok |-> TRUE, nodes |-> nodes, next |-> i + 2]
    ELSE IF stop = "ref" /\ At(s, i, <<"<", "/", "r", "e", "f", ">">>)
       THEN [ok |-> TRUE, nodes |-> nodes, next |-> i + 6]
    ELSE IF At(s, i, <<"[", "[">>)
       THEN Bind(ParseWikilink(s, i + 2), LAMBDA r :
               IF r.ok
                  THEN ParseUntil(s, r.next, stop, nodes \o r.nodes)
                  ELSE Bind(AddChar(AddChar(nodes, "["), "["), LAMBDA ns :
                          ParseUntil(s, i + 2, stop, ns)))
    ELSE IF At(s, i, <<"<", "r", "e", "f", ">">>)
       THEN Bind(ParseUntil(s, i + 5, "ref", <<>>), LAMBDA r :
               IF r.ok
                  THEN ParseUntil(s, r.next, stop,
                                  Append(nodes, TagNode(<<"r", "e", "f">>, r.nodes)))
                  ELSE Bind(AddChar(nodes, "<"), LAMBDA ns :
                          ParseUntil(s, i + 1, stop, ns)))
    ELSE IF stop = "top" /\ HeadingAt(s, i)
       THEN Bind(HeadingEnd(s, i + 2), LAMBDA e :
               ParseUntil(s, e + 2, stop,
                          Append(nodes, HeadingNode(SubSeq(s, i + 2, e - 1)))))
    ELSE Bind(AddChar(nodes, s[i]), LAMBDA ns : ParseUntil(s, i + 1, stop, ns))

\* the link whose title starts at j, just after "[["
ParseWikilink(s, j) ==
    Bind(TitleEnd(s, j), LAMBDA e :
        IF e = j THEN ParseFail
        ELSE IF At(s, e, <<"]", "]">>)
           THEN [ok |-> TRUE, nodes |-> <<LinkNode(SubSeq(s, j, e - 1), FALSE, <<>>)>>,
                 next |-> e + 2]
        ELSE IF At(s, e, <<"|">>)
           THEN Bind(ParseUntil(s, e + 1, "link", <<>>), LAMBDA r :
                   IF r.ok
                      THEN [ok |-> TRUE,
                            nodes |-> <<LinkNode(SubSeq(s, j, e - 1), TRUE, r.nodes)>>,
                            next |-> r.next]
                      ELSE ParseFail)
        ELSE ParseFail)

Parse(s) == Bind(s, LAMBDA x : ParseUntil(x, 1, "top", <<>>).nodes)

(***************************************************************************)
(* The node objects.  heap[n] is node n; its kids are the ids held by the *)
(* Wikicode it owns (the text of a link, the contents of a tag), a list   *)
(* that removals change in place.                                         *)
(***************************************************************************)
RECURSIVE AllocSeq(_, _)
AllocSeq(heap, trees) ==
    IF trees = <<>> THEN [heap |-> heap, ids |-> <<>>]
    ELSE Bind(AllocSeq(heap, Head(trees).kids), LAMBDA sub :
         Bind(Append(sub.heap, [Head(trees) EXCEPT !.kids = sub.ids]), LAMBDA h1 :
         Bind(AllocSeq(h1, Tail(trees)), LAMBDA rest :
            [heap |-> rest.heap, ids |-> <<Len(h1)>> \o rest.ids])))

\* the Wikicode a node owns, as __children__ yields it (a title holds text only)
HasChildCode(node) == (node.k = "link" /\ node.hasText) \/ node.k = "tag"

LiveKids(node) == IF HasChildCode(node) THEN node.kids ELSE <<>>

\* strip_code(collapse=True): strip("\n"), then runs of newlines become two
RECURSIVE StripNewlinesL(_)
StripNewlinesL(s) == IF s # <<>> /\ Head(s) = "\n" THEN StripNewlinesL(Tail(s)) ELSE s

RECURSIVE StripNewlinesR(_)
StripNewlinesR(s) ==
    IF s # <<>> /\ s[Len(s)] = "\n"
       THEN StripNewlinesR(SubSeq(s, 1, Len(s) - 1)) ELSE s

RECURSIVE Squeeze(_)
Squeeze(s) ==
    IF s = <<>> THEN <<>>
    ELSE IF At(s, 1, <<"\n", "\n", "\n">>) THEN Squeeze(Tail(s))
    ELSE <<Head(s)>> \o Squeeze(Tail(s))

Collapse(s) ==
    Bind(StripNewlinesR(s), LAMBDA r :
    Bind(StripNewlinesL(r), LAMBDA l : Squeeze(l)))

RECURSIVE StripCode(_, _)
RECURSIVE StripNode(_, _)

\* Node.__strip__: Text is its value, a Wikilink its text (its title when it
\* has none), a Tag its contents, a Heading its title
StripNode(heap, n) ==
    LET node == heap[n] IN
    IF node.k = "text" THEN node.s
    ELSE IF node.k = "link"
       THEN IF node.hasText THEN StripCode(heap, node.kids) ELSE Collapse(node.s)
    ELSE IF node.k = "tag"
       THEN IF node.kids # <<>> THEN StripCode(heap, node.kids) ELSE <<>>
    ELSE Collapse(node.s)

\* Wikicode.strip_code()
StripCode(heap, ids) ==
    Bind(Concat([i \in 1..Len(ids) |-> StripNode(heap, ids[i])]), LAMBDA joined :
       Collapse(joined))

\* every node reachable from the nodes ids
RECURSIVE ReachIds(_, _)
ReachIds(heap, ids) ==
    IF ids = <<>> THEN {}
    ELSE {Head(ids)} \cup ReachIds(heap, LiveKids(heap[Head(ids)]))
                     \cup ReachIds(heap, Tail(ids))

Without(ids, n) == SelectSeq(ids, LAMBDA x : x # n)

(***************************************************************************)
(* _parse_and_clean_wikicode.  A cleaning state st holds the node objects *)
(* (heap), the node list of the section being cleaned (sec), the texts of *)
(* the sections done (section_text), and what happened on the way: the    *)
(* ValueErrors swallowed, whether an exception escaped, and the text each *)
(* category link was given.                                               *)
(***************************************************************************)
\* Wikicode.remove(obj): obj is searched by identity in the section and in
\* the Wikicode of every node below it
Found(st, n) == n \in ReachIds(st.heap, st.sec)

remove(st, n) ==
    IF n \in Range(st.sec)
       THEN [st EXCEPT !.sec = Without(@, n)]
       ELSE LET p == CHOOSE q \in ReachIds(st.heap, st.sec) :
                        n \in Range(LiveKids(st.heap[q]))
            IN  [st EXCEPT !.heap[p].kids = Without(@, n)]

\* without the except clause the ValueError leaves _parse_and_clean_wikicode
try_remove_obj_raising(st, n) ==
    IF Found(st, n) THEN remove(st, n) ELSE [st EXCEPT !.raised = TRUE]

\* try: section.remove(obj)  except ValueError: pass
try_remove_obj(st, n) ==
    IF Found(st, n) THEN remove(st, n) ELSE [st EXCEPT !.swallowed = @ + 1]

\* clean_wikilink: obj.text = re.sub(re_clean_wikilink, "", obj.__strip__());
\* the setter parses the string into the link's new text
clean_wikilink(st, n, lang) ==
    Bind(StripCatPrefix(StripNode(st.heap, n), lang), LAMBDA text :
    Bind(AllocSeq(st.heap, Parse(text)), LAMBDA al :
       [st EXCEPT !.heap = [al.heap EXCEPT ![n].hasText = TRUE, ![n].kids = al.ids],
                  !.rewrites = Append(@, [node |-> n, title |-> st.heap[n].s,
                                          text |-> text])]))

\* try: clean_wikilink(obj)  except ValueError: pass
try_replace_obj(st, n, lang) == clean_wikilink(st, n, lang)

\* rm_tag
rm_tag(node) == node.s \in {<<"r", "e", "f">>, <<"t", "a", "b", "l", "e">>}

\* the body of the loop over the nodes that ifilter yields: the wikilinks
\* (lines 120-124), then the tags that rm_tag matches (lines 125-126)
LoopBody(st, n, pass, lang) ==
    LET node == st.heap[n] IN
    IF pass = "links" /\ node.k = "link"
       THEN IF rm_wikilink(node.s, lang) THEN try_remove_obj(st, n)
            ELSE IF is_category(node.s, lang) THEN try_replace_obj(st, n, lang)
            ELSE st
    ELSE IF pass = "tags" /\ node.k = "tag" /\ rm_tag(node)
       THEN try_remove_obj(st, n)
    ELSE st

\* after a node is yielded and the loop body has run, the generator goes on
\* into the Wikicode the node owns at that moment
PushChildren(st, n, stack) ==
    IF HasChildCode(st.heap[n]) THEN Append(stack, [node |-> n, idx |-> 1]) ELSE stack

\* section.ifilter(recursive=True) interleaved with the loop body.  top is
\* what is left of the section's own nodes, taken when the iteration starts;
\* a stack frame is a list iterator over the live node list of a Wikicode,
\* so a removal from that list moves the nodes behind it under the iterator
RECURSIVE Walk(_, _, _, _, _)
Walk(st, top, stack, pass, lang) ==
    IF stack = <<>>
       THEN IF top = <<>> THEN st
            ELSE Bind(LoopBody(st, Head(top), pass, lang), LAMBDA st2 :
                 Bind(PushChildren(st2, Head(top), <<>>), LAMBDA stk :
                    Walk(st2, Tail(top), stk, pass, lang)))
       ELSE IF stack[Len(stack)].idx > Len(st.heap[stack[Len(stack)].node].kids)
          THEN Bind(SubSeq(stack, 1, Len(stack) - 1), LAMBDA stk :
                  Walk(st, top, stk, pass, lang))
          ELSE Bind(st.heap[stack[Len(stack)].node].kids[stack[Len(stack)].idx],
                    LAMBDA n :
               Bind(LoopBody(st, n, pass, lang), LAMBDA st2 :
               Bind(PushChildren(st2, n,
                                 [stack EXCEPT ![Len(stack)].idx = @ + 1]), LAMBDA stk :
                  Walk(st2, top, stk, pass, lang))))

\* get_sections(flat=True, include_lead=True, include_headings=True): the lead
\* section, then one section from each heading to the next
RECURSIVE get_sections(_, _)
get_sections(heap, ids) ==
    IF ids = <<>> THEN << <<>> >>
    ELSE LET before == get_sections(heap, SubSeq(ids, 1, Len(ids) - 1))
             n      == ids[Len(ids)]
         IN  IF heap[n].k = "heading"
                THEN Append(before, <<n>>)
                ELSE [before EXCEPT ![Len(before)] = Append(@, n)]

\* line 128: re.sub(re_rm_magic, "", section.strip_code().strip())
SectionText(st) ==
    Bind(StripCode(st.heap, st.sec), LAMBDA code :
    Bind(Strip(code), LAMBDA stripped : RemoveMagic(stripped)))

\* lines 119-128, for the sections in order
RECURSIVE CleanSections(_, _, _)
CleanSections(st, sections, lang) ==
    IF sections = <<>> THEN st
    ELSE Bind([st EXCEPT !.sec = Head(sections)], LAMBDA s0 :
         Bind(Walk(s0, s0.sec, <<>>, "links", lang), LAMBDA s1 :
         Bind(Walk(s1, s1.sec, <<>>, "tags", lang), LAMBDA s2 :
         Bind([s2 EXCEPT !.section_text = Append(@, SectionText(s2))], LAMBDA s3 :
            CleanSections(s3, Tail(sections), lang)))))

parse_and_clean_wikicode(raw_content, lang) ==
    Bind(AllocSeq(<<>>, Parse(raw_content)), LAMBDA al :
    Bind(CleanSections([heap |-> al.heap, sec |-> <<>>, section_text |-> <<>>,
                        swallowed |-> 0, raised |-> FALSE, rewrites |-> <<>>],
                       get_sections(al.heap, al.ids), lang), LAMBDA fin :
       [text         |-> Join(fin.section_text, <<"\n", "\n">>),
        section_text |-> fin.section_text,
        swallowed    |-> fin.swallowed,
        raised       |-> fin.raised,
        rewrites     |-> fin.rewrites,
        parser_error |-> FALSE]))

(***************************************************************************)
(* _construct_url and _clean_content                                      *)
(***************************************************************************)
\* urllib.parse.quote: letters, digits and "_.-~/" stay, the other
\* characters of the model become their percent escapes
QuoteChar(c) ==
    IF c = " " THEN <<"%", "2", "0">>
    ELSE IF c = ":" THEN <<"%", "3", "A">>
    ELSE <<c>>

quote(title) == Concat([i \in 1..Len(title) |-> QuoteChar(title[i])])

LanguageChars(lang) == IF lang = "en" THEN <<"e", "n">> ELSE <<"d", "e">>

construct_url(title, lang) ==
    <<"h", "t", "t", "p", "s", ":", "/", "/">> \o LanguageChars(lang) \o <<".", "w", "i", "k", "i", "s", "o", "u", "r", "c", "e", ".", "o", "r", "g", "/", "w", "i", "k", "i", "/">> \o quote(title)

\* line 67 without the test for an empty text
Dropped_short_only(text, min_len) == Len(text) < min_len

\* line 67: if not text or len(text) < min_text_length: return
Dropped(text, min_len) == text = <<>> \/ Len(text) < min_len

\* what one call of _clean_content leaves: the records it yields, and how
\* the cleaning went
clean_content(inputs, lang, min_len) ==
    Bind(parse_and_clean_wikicode(inputs.raw, lang), LAMBDA r :
       [res |-> r,
        out |-> IF r.raised \/ Dropped(r.text, min_len) THEN <<>>
                ELSE << [id    |-> inputs.id,
                         url   |-> construct_url(inputs.title, lang),
                         title |-> inputs.title,
                         text  |-> r.text] >>])

(***************************************************************************)
(* The records of one stream, cleaned one after the other                 *)
(***************************************************************************)
MaxFrags == 2

MaxMinLen == 2

MaxArticles == 2

\* pieces of markup; a raw article of the model is a concatenation of them
Fragments ==
    { <<"[", "[", "F", "i", "l", "e", ":", "a", "]", "]">>,
      <<"[", "[", "C", "a", "t", "e", "g", "o", "r", "y", ":", "B", "]", "]">>,
      <<"x", " ">>,
      <<"_", "_", "A", "_", "_">>,
      <<"_">>,
      <<"[", "[", "C", "a", "t", "e", "g", "o", "r", "y", ":", "B", "|", "c", "[", "[", "F", "i", "l", "e", ":", "a", "]", "]", "]", "]">>,
      <<"[", "[", "y", "|", "[", "[", "F", "i", "l", "e", ":", "a", "]", "]", "[", "[", "i", "m", "a", "g", "e", ":", "b", "]", "]", "]", "]">>,
      <<"[", "[", "F", "i", "l", "e", ":", "a", "|", "q", "[", "[", "F", "i", "l", "e", ":", "b", "]", "]", "]", "]">>,
      <<"[", "[", "c", "a", "t", "e", "g", "o", "r", "y", ":", "B", "|", "i", "n", " ", "C", "a", "t", "e", "g", "o", "r", "y", ":", "B", "]", "]">>,
      <<"<", "r", "e", "f", ">", "r", "<", "/", "r", "e", "f", ">">>,
      <<"\n", "=", "=", "H", "=", "=", "\n">>,
      <<"[", "[", "D", "a", "t", "e", "i", ":", "d", "]", "]">>,
      <<"[", "[", "K", "a", "t", "e", "g", "o", "r", "i", "e", ":", "K", "]", "]">> }

ScenarioMarkup ==
    <<"[", "[", "F", "i", "l", "e", ":", "C", "a", "t", ".", "j", "p", "g", "|", "t", "h", "u", "m", "b", "]", "]", "H", "e", "l", "l", "o", " ", "[", "[", "C", "a", "t", "e", "g", "o", "r", "y", ":", "A", "n", "i", "m", "a", "l", "s", "]", "]", " ", "w", "o", "r", "l", "d", " ", "_", "_", "N", "O", "T", "O", "C", "_", "_">>

RawInputs ==
    {Concat(fs) : fs \in (SeqsUpTo(Fragments, MaxFrags) \ {<<>>})} \cup {ScenarioMarkup}

TitleOf(k) == <<"T", " ", Digits[k + 1]>>

NoResult ==
    [text |-> <<>>, section_text |-> <<>>, swallowed |-> 0, raised |-> FALSE,
     rewrites |-> <<>>, parser_error |-> FALSE]

InitClean ==
    /\ article \in [id : {1}, title : {TitleOf(1)}, raw : RawInputs]
    /\ language \in Languages
    /\ min_text_length \in 0..MaxMinLen
    /\ cpc = "ready"
    /\ res = NoResult
    /\ out = <<>>
    /\ fed = 1
    /\ processed = 0
    /\ failures = 0

IdleClean ==
    /\ article = [id |-> 0, title |-> <<>>, raw |-> <<>>]
    /\ language = "en"
    /\ min_text_length = 0
    /\ cpc = "idle"
    /\ res = NoResult
    /\ out = <<>>
    /\ fed = 0
    /\ processed = 0
    /\ failures = 0

\* lines 64-66: parser.parse raises ParserError; it is logged and the call
\* returns without a record
ParserErrorCaught ==
    /\ cpc = "ready"
    /\ res' = [NoResult EXCEPT !.parser_error = TRUE]
    /\ out' = <<>>
    /\ cpc' = "returned"
    /\ processed' = processed + 1
    /\ UNCHANGED <<article, language, min_text_length, fed, failures>>
    /\ UNCHANGED <<idxVars, extVars, wrkVars>>

\* lines 61-70 when the parser returns a tree: an exception that leaves
\* _parse_and_clean_wikicode leaves _clean_content too
CleanContent ==
    /\ cpc = "ready"
    /\ LET call == clean_content(article, language, min_text_length) IN
          /\ res' = call.res
          /\ out' = call.out
          /\ IF call.res.raised
                THEN cpc' = "raised" /\ UNCHANGED processed
                ELSE cpc' = "returned" /\ processed' = processed + 1
    /\ UNCHANGED <<article, language, min_text_length, fed, failures>>
    /\ UNCHANGED <<idxVars, extVars, wrkVars>>

\* the records that follow the first in the stream hold one fragment each
LaterInputs == Fragments

\* the caller takes the next record of the stream
FeedNext ==
    /\ cpc = "returned"
    /\ fed < MaxArticles
    /\ \E raw \in LaterInputs :
          article' = [id |-> fed + 1, title |-> TitleOf(fed + 1), raw |-> raw]
    /\ fed' = fed + 1
    /\ failures' = IF res.parser_error \/ res.swallowed > 0
                      THEN failures + 1 ELSE failures
    /\ res' = NoResult
    /\ out' = <<>>
    /\ cpc' = "ready"
    /\ UNCHANGED <<language, min_text_length, processed>>
    /\ UNCHANGED <<idxVars, extVars, wrkVars>>

\* the stream has no more records
EndOfStream ==
    /\ cpc = "returned"
    /\ fed = MaxArticles
    /\ cpc' = "end"
    /\ UNCHANGED <<article, language, min_text_length, res, out, fed, processed,
                   failures>>
    /\ UNCHANGED <<idxVars, extVars, wrkVars>>

NextClean ==
    \/ ParserErrorCaught
    \/ CleanContent
    \/ FeedNext
    \/ EndOfStream

(***************************************************************************)
(* Workers: the ranges of one index, each cleaned by a worker of its own  *)
(***************************************************************************)
MaxBlocks == 2

MainPage(raw) == [ns |-> "0", redirect |-> FALSE, text |-> raw, wellformed |-> TRUE]

RedirectPage == [ns |-> "0", redirect |-> TRUE, text |-> <<"a">>, wellformed |-> TRUE]

\* the pages a compressed stream of the model may hold
BlockContents ==
    { << MainPage(<<"x", " ">>) >>,
      << RedirectPage, MainPage(<<"[", "[", "F", "i", "l", "e", ":", "a", "]", "]", "x", " ">>) >> }

\* a compressed stream: its length in bytes and the pages it decompresses to
BlockKinds == [len : {1, 2}, pages : BlockContents]

\* the bytes of the dump file: a one-byte header stream, then the streams.
\* A byte is named by its stream b and its place k in it.
BytesOf(b, len) == [k \in 1..len |-> [b |-> b, k |-> k]]

FileBytes(d) ==
    <<[b |-> 0, k |-> 1]>> \o Concat([b \in 1..Len(d) |-> BytesOf(b, d[b].len)])

\* the byte offset at which stream b starts
RECURSIVE StartOf(_, _)
StartOf(d, b) == IF b = 1 THEN 1 ELSE StartOf(d, b - 1) + d[b - 1].len

\* the index file has one row per page, holding the offset of its stream
IndexRows(d) ==
    Concat([b \in 1..Len(d) |-> [i \in 1..Len(d[b].pages) |-> StartOf(d, b)]])

RECURSIVE CollectAll(_)
CollectAll(offs) ==
    IF offs = <<>> THEN <<>>
    ELSE Collect(CollectAll(SubSeq(offs, 1, Len(offs) - 1)), offs[Len(offs)])

\* _pairwise(_extract_index(index_file))
RangesOf(d) == Pairwise(Sorted(CollectAll(IndexRows(d))))

\* every call of _extract_content shares one file object
Handle_shared(w) == 1

\* line 32: every call of _extract_content opens a file object of its own
Handle(w) == w

\* line 34: end - start if end else -1
ReadSize(range) ==
    IF range.end # None /\ range.end # Some(0) THEN range.end[1] - range.start ELSE -1

\* file.read(n) at position pos; a negative n reads to the end of the file
ReadBytes(bytes, pos, n) ==
    IF n < 0 \/ pos + n > Len(bytes) THEN SubSeq(bytes, pos + 1, Len(bytes))
    ELSE SubSeq(bytes, pos + 1, pos + n)

\* BZ2Decompressor().decompress(data) gives the first stream of data when
\* data starts at the start of a stream and holds all of it
Decompressible(d, data) ==
    /\ data # <<>>
    /\ data[1].b >= 1
    /\ Len(data) >= d[data[1].b].len
    /\ \A k \in 1..d[data[1].b].len : data[k] = [b |-> data[1].b, k |-> k]

PagesOf(d, data) == d[data[1].b].pages

WorkerLanguage == "en"

InitWorkers ==
    /\ dump \in UNION {[1..n -> BlockKinds] : n \in 1..MaxBlocks}
    /\ wpc = [w \in 1..Len(dump) |-> "new"]
    /\ hpos = [w \in 1..Len(dump) |-> 0]
    /\ wdata = [w \in 1..Len(dump) |-> <<>>]
    /\ wnext = [w \in 1..Len(dump) |-> 0]
    /\ wout = [w \in 1..Len(dump) |-> <<>>]

IdleWorkers ==
    /\ dump = <<>>
    /\ wpc = <<>>
    /\ hpos = <<>>
    /\ wdata = <<>>
    /\ wnext = <<>>
    /\ wout = <<>>

\* line 32: open(filepath, "rb")
WOpen(w) ==
    /\ wpc[w] = "new"
    /\ hpos' = [hpos EXCEPT ![Handle(w)] = 0]
    /\ wpc' = [wpc EXCEPT ![w] = "opened"]
    /\ UNCHANGED <<dump, wdata, wnext, wout>>
    /\ UNCHANGED <<idxVars, extVars, clnVars>>

\* line 33: compressed_file.seek(start)
WSeek(w) ==
    /\ wpc[w] = "opened"
    /\ hpos' = [hpos EXCEPT ![Handle(w)] = RangesOf(dump)[w].start]
    /\ wpc' = [wpc EXCEPT ![w] = "sought"]
    /\ UNCHANGED <<dump, wdata, wnext, wout>>
    /\ UNCHANGED <<idxVars, extVars, clnVars>>

\* line 34: compressed_file.read(end - start if end else -1)
WRead(w) ==
    /\ wpc[w] = "sought"
    /\ LET data == ReadBytes(FileBytes(dump), hpos[Handle(w)],
                             ReadSize(RangesOf(dump)[w]))
       IN  /\ wdata' = [wdata EXCEPT ![w] = data]
           /\ hpos' = [hpos EXCEPT ![Handle(w)] = @ + Len(data)]
    /\ wpc' = [wpc EXCEPT ![w] = "read"]
    /\ UNCHANGED <<dump, wnext, wout>>
    /\ UNCHANGED <<idxVars, extVars, clnVars>>

\* lines 35-39: decompress the bytes and start parsing
WDecompress(w) ==
    /\ wpc[w] = "read"
    /\ wpc' = [wpc EXCEPT ![w] = IF Decompressible(dump, wdata[w])
                                    THEN "iter" ELSE "raised"]
    /\ UNCHANGED <<dump, hpos, wdata, wnext, wout>>
    /\ UNCHANGED <<idxVars, extVars, clnVars>>

\* lines 39-56: the next page element; a page that passes the filters is
\* yielded to the consumer
WPage(w) ==
    /\ wpc[w] = "iter"
    /\ wnext[w] < Len(PagesOf(dump, wdata[w]))
    /\ wnext' = [wnext EXCEPT ![w] = @ + 1]
    /\ LET page == PagesOf(dump, wdata[w])[wnext[w] + 1] IN
          wpc' = [wpc EXCEPT ![w] = IF Filtered(page) \/ EmptyPage(page)
                                       THEN "iter" ELSE "yielded"]
    /\ UNCHANGED <<dump, hpos, wdata, wout>>
    /\ UNCHANGED <<idxVars, extVars, clnVars>>

\* the consumer passes the yielded record through _clean_content
WClean(w) ==
    /\ wpc[w] = "yielded"
    /\ LET rec == RecordOf(wnext[w], PagesOf(dump, wdata[w])[wnext[w]]) IN
          wout' = [wout EXCEPT ![w] = @ \o clean_content(rec, WorkerLanguage, 0).out]
    /\ wpc' = [wpc EXCEPT ![w] = "iter"]
    /\ UNCHANGED <<dump, hpos, wdata, wnext>>
    /\ UNCHANGED <<idxVars, extVars, clnVars>>

\* the stream is exhausted
WExhaust(w) ==
    /\ wpc[w] = "iter"
    /\ wnext[w] = Len(PagesOf(dump, wdata[w]))
    /\ wpc' = [wpc EXCEPT ![w] = "done"]
    /\ UNCHANGED <<dump, hpos, wdata, wnext, wout>>
    /\ UNCHANGED <<idxVars, extVars, clnVars>>

NextWorkers ==
    \/ \E w \in DOMAIN wpc : WOpen(w)
    \/ \E w \in DOMAIN wpc : WSeek(w)
    \/ \E w \in DOMAIN wpc : WRead(w)
    \/ \E w \in DOMAIN wpc : WDecompress(w)
    \/ \E w \in DOMAIN wpc : WPage(w)
    \/ \E w \in DOMAIN wpc : WClean(w)
    \/ \E w \in DOMAIN wpc : WExhaust(w)

(***************************************************************************)
(* Specifications                                                         *)
(***************************************************************************)
InitIndexOnly == InitIndex /\ IdleExtract /\ IdleClean /\ IdleWorkers

SpecIndex == InitIndexOnly /\ [][NextIndex]_vars

InitExtractOnly == IdleIndex /\ InitExtract /\ IdleClean /\ IdleWorkers

SpecExtract == InitExtractOnly /\ [][NextExtract]_vars

InitCleanOnly == IdleIndex /\ IdleExtract /\ InitClean /\ IdleWorkers

SpecClean == InitCleanOnly /\ [][NextClean]_vars

InitWorkersOnly == IdleIndex /\ IdleExtract /\ IdleClean /\ InitWorkers

SpecWorkers == InitWorkersOnly /\ [][NextWorkers]_vars

\* one call of either file-opening operation; every step that can be taken
\* eventually is: the callee runs, the caller resumes the generator or stops
\* iterating, and the runtime finalizes a generator that was dropped
InitHandles ==
    /\ (InitIndex /\ IdleExtract) \/ (IdleIndex /\ InitExtract)
    /\ IdleClean
    /\ IdleWorkers

NextHandles == NextIndex \/ NextExtract

FairSpecHandles ==
    /\ InitHandles
    /\ [][NextHandles]_vars
    /\ WF_vars(NextIndex)
    /\ WF_vars(StartExtract \/ PageEvent \/ Exhaust)
    /\ WF_vars(Resume \/ StopIterating)
    /\ WF_vars(Finalize)

(***************************************************************************)
(* Properties                                                             *)
(***************************************************************************)
ValidIndexFile == \A i \in 1..Len(rows) : ValidInt(rows[i])

Offsets == {IntOf(rows[i]) : i \in 1..Len(rows)}

Scenario5_5_20 == <<(<<"5">>), (<<"5">>), (<<"2", "0">>)>>

\* C1: for a valid index file the paired ranges are one per distinct offset,
\* with strictly increasing starts, each end equal to the next start and the
\* last end None; an empty index gives no ranges; offsets 5, 5, 20 give
\* [(5, 20), (20, None)].
C1_RangesContiguous ==
    (ipc = "paired" /\ ValidIndexFile) =>
        /\ Len(ranges) = Cardinality(Offsets)
        /\ {ranges[i].start : i \in 1..Len(ranges)} = Offsets
        /\ \A i \in 1..(Len(ranges) - 1) :
              /\ ranges[i].start < ranges[i + 1].start
              /\ ranges[i].end = Some(ranges[i + 1].start)
        /\ (ranges # <<>> => ranges[Len(ranges)].end = None)
        /\ (rows = <<>> => ranges = <<>>)
        /\ (rows = Scenario5_5_20 =>
               ranges = << [start |-> 5, end |-> Some(20)],
                           [start |-> 20, end |-> None] >>)

C1_Witness == ipc = "paired" /\ rows = Scenario5_5_20 /\ Len(ranges) = 2

WellFormedStream == ~corrupt /\ \A i \in 1..Len(stream) : stream[i].wellformed

\* the pages the specification says become records
IsArticle(page) == page.ns = "0" /\ ~page.redirect /\ page.text # <<>>

RECURSIVE ArticlesOf(_, _)
ArticlesOf(s, k) ==
    IF k = 0 THEN <<>>
    ELSE IF IsArticle(s[k])
            THEN Append(ArticlesOf(s, k - 1),
                        [id |-> k, title |-> <<"T">>, raw |-> s[k].text])
            ELSE ArticlesOf(s, k - 1)

\* C2: on a well-formed stream the records yielded are, in document order,
\* exactly one per page with ns "0", no redirect and a present text, nothing
\* else (so nothing at all when no page qualifies), and no raw markup is empty.
C2_YieldsExactlyArticles ==
    WellFormedStream =>
        /\ yielded = ArticlesOf(stream, epos)
        /\ (epc = "done" => yielded = ArticlesOf(stream, Len(stream)))
        /\ ((\A i \in 1..Len(stream) : stream[i].ns # "0" \/ stream[i].redirect)
               => yielded = <<>>)
        /\ \A i \in 1..Len(yielded) : yielded[i].raw # <<>>

C2_Witness ==
    /\ epc = "done"
    /\ WellFormedStream
    /\ Len(stream) = 3
    /\ Len(yielded) = 1
    /\ yielded[1].id = 2

IndexEnded == ipc \in {"returned", "paired", "raised"}

ExtractEnded == epc \in {"done", "raised", "closed"}

\* C8: a file handle opened by _extract_content or _extract_index is closed
\* on every exit path (exhaustion, a decompression or parse failure, the
\* caller stopping after any number of records): an open handle is eventually
\* closed, and none is open once its operation has ended.
C8_HandlesReleased ==
    /\ [](IndexEnded => ihandle # "open")
    /\ [](ExtractEnded => ehandle # "open")
    /\ (ihandle = "open") ~> (ihandle = "closed")
    /\ (ehandle = "open") ~> (ehandle = "closed")

C8_Witness == epc = "closed" /\ ehandle = "closed" /\ Len(yielded) = 2

Cleaned == cpc = "returned" /\ ~res.parser_error

\* C3: a call emits at most one record, and only for a cleaned text that is
\* non-empty and at least min_text_length characters long; an empty or
\* shorter text gives no record; a record carries id, url, title and text.
C3_EmitsOnlyCompleteRecords ==
    /\ Len(out) <= 1
    /\ \A i \in 1..Len(out) :
          /\ DOMAIN out[i] = {"id", "url", "title", "text"}
          /\ out[i].id = article.id
          /\ out[i].title = article.title
          /\ out[i].url = construct_url(article.title, language)
          /\ out[i].text = res.text
          /\ out[i].text # <<>>
          /\ Len(out[i].text) >= min_text_length
    /\ (cpc = "returned" /\ (res.text = <<>> \/ Len(res.text) < min_text_length))
          => out = <<>>

C3_Witness ==
    /\ Cleaned
    /\ res.text # <<>>
    /\ Len(res.text) < min_text_length
    /\ out = <<>>

\* a magic word: an all-uppercase word wrapped in double underscores
HasMagic(t) ==
    \E i \in 1..Len(t) :
        At(t, i, <<"_", "_">>) /\ At(t, UpperRunEnd(t, i + 2), <<"_", "_">>)

\* C4: the text of every section has no magic word left and no leading or
\* trailing whitespace; the markup of the scenario, cleaned with language
\* "en", is exactly "Hello Animals world".
C4_SectionTextTrimmedNoMagic ==
    Cleaned =>
        /\ \A i \in 1..Len(res.section_text) :
              /\ ~HasMagic(res.section_text[i])
              /\ Strip(res.section_text[i]) = res.section_text[i]
        /\ (article.raw = ScenarioMarkup /\ language = "en")
              => res.text = <<"H", "e", "l", "l", "o", " ", "A", "n", "i", "m", "a", "l", "s", " ", "w", "o", "r", "l", "d">>

\* C5: the text a category link is rewritten to never contains the category
\* prefix of the link (the prefix and its colon), compared case-insensitively.
C5_NoCategoryPrefixLeft ==
    Cleaned =>
        \A i \in 1..Len(res.rewrites) :
            ~Contains(LowerStr(res.rewrites[i].text),
                      LowerStr(SubSeq(res.rewrites[i].title, 1,
                                      PrefixMatchLen(cat_prefixes(language),
                                                     res.rewrites[i].title))))

\* the title and the text leaves of the nodes ns and of everything below them
RECURSIVE TextsIn(_)
TextsIn(ns) ==
    IF ns = <<>> THEN {}
    ELSE {Head(ns).s} \cup TextsIn(Head(ns).kids) \cup TextsIn(Tail(ns))

\* the texts of the media links among ns, at any depth
RECURSIVE MediaTexts(_, _)
MediaTexts(ns, lang) ==
    IF ns = <<>> THEN {}
    ELSE (IF Head(ns).k = "link" /\ rm_wikilink(Head(ns).s, lang)
             THEN {Head(ns).s} \cup TextsIn(Head(ns).kids)
             ELSE MediaTexts(Head(ns).kids, lang))
         \cup MediaTexts(Tail(ns), lang)

\* C6: no media link of the article, at any nesting depth, leaves its title
\* or any text of its subtree in the cleaned text.
C6_MediaLinksAbsent ==
    Cleaned =>
        \A t \in MediaTexts(Parse(article.raw), language) : ~Contains(res.text, t)

\* C7: a failure while cleaning an article (a ParserError, or a removal
\* target missing from its section) does not abort the stream, and the
\* failing article gives no record.
C7_FailingArticleGivesNoRecord ==
    /\ cpc # "raised"
    /\ (cpc = "returned" /\ (res.parser_error \/ res.swallowed > 0)) => out = <<>>

\* C7, amended: no failure aborts the stream, so every record fed is
\* processed; an article whose parse fails gives no record; an article with a
\* missing removal target is cleaned like any other and gives a record exactly
\* when its text passes the length test.
C7_FailuresDoNotAbort ==
    /\ cpc # "raised"
    /\ (cpc = "returned" /\ res.parser_error) => out = <<>>
    /\ Cleaned => ((out = <<>>) <=> Dropped(res.text, min_text_length))
    /\ processed = (IF cpc = "ready" THEN fed - 1 ELSE fed)
    /\ cpc = "end" => processed = MaxArticles

C7_Witness ==
    /\ Cleaned
    /\ failures > 0
    /\ fed = MaxArticles
    /\ out # <<>>

\* C10: cleaning the cleaned text again, with the same language, gives the
\* same text.
C10_CleaningIdempotent ==
    Cleaned => parse_and_clean_wikicode(res.text, language).text = res.text

Workers == DOMAIN wpc

\* the byte offsets a range covers
RangeBytes(w) ==
    {i \in 0..(Len(FileBytes(dump)) - 1) :
        /\ RangesOf(dump)[w].start <= i
        /\ RangesOf(dump)[w].end # None => i < RangesOf(dump)[w].end[1]}

\* the records of range w when the ranges are processed one after the other
RECURSIVE CleanAll(_)
CleanAll(records) ==
    IF records = <<>> THEN <<>>
    ELSE clean_content(Head(records), WorkerLanguage, 0).out \o CleanAll(Tail(records))

SequentialOutput(w) == CleanAll(ArticlesOf(dump[w].pages, Len(dump[w].pages)))

IsPrefix(a, b) == Len(a) <= Len(b) /\ SubSeq(b, 1, Len(a)) = a

\* C9: no two ranges share a byte; in every interleaving each worker emits,
\* in order, the records the sequential processing of its range emits; and a
\* step changes the state of one worker only.
C9_RangesIndependent ==
    /\ [](\A v, w \in Workers : v # w => RangeBytes(v) \cap RangeBytes(w) = {})
    /\ [](\A w \in Workers :
             /\ wpc[w] # "raised"
             /\ IsPrefix(wout[w], SequentialOutput(w))
             /\ wpc[w] = "done" => wout[w] = SequentialOutput(w))
    /\ [][Cardinality({w \in Workers :
                          <<wpc[w], hpos[w], wdata[w], wnext[w], wout[w]>> #
                          <<wpc'[w], hpos'[w], wdata'[w], wnext'[w], wout'[w]>>}) <= 1]_vars

C9_Witness ==
    /\ Len(dump) = 2
    /\ wpc[2] = "done"
    /\ wout[2] # <<>>
    /\ wpc[1] = "sought"

====
